---- MODULE Spec2Model ----
(***************************************************************************)
(* Model of app.py: a Streamlit dashboard over one PostgreSQL table.       *)
(* A session runs main() top to bottom on every rerun: login, check_role,  *)
(* (admin) load_csv_to_postgres, get_data, filter, to_excel, to_pdf.       *)
(* The store is table "dados" seen through psycopg2 connections (one       *)
(* implicit transaction per connection, READ COMMITTED).  send_email is a  *)
(* separate entry point with its own specification.                        *)
(***************************************************************************)
EXTENDS Integers, Sequences, FiniteSets, TLC

\* ---- bounds ----
MaxRows == 2      \* data rows of an uploaded CSV
MaxHeap == 3      \* storage slots of table dados
MaxId   == 4      \* values handed out by the SERIAL sequence of dados.id

Sessions == {1, 2}

VARIABLES
  users,        \* identity -> secret, json.loads(USERS_JSON)
  logged_in,    \* st.session_state.logged_in, per session
  user,         \* st.session_state.user, per session
  role,         \* local role of main(), per session
  pc,           \* position of the session inside main()
  file,         \* the uploaded file: its lines
  df,           \* pd.read_csv(file) inside load_csv_to_postgres
  k,            \* number of rows already inserted by the running load
  conn,         \* connection of the running store call: none / open / closed
  fetched,      \* cur.fetchall() inside get_data
  data,         \* DataFrame returned by get_data
  f1, f2,       \* filtro_coluna1, filtro_coluna2
  view,         \* df_filtrado
  excel, pdf,   \* excel_data, pdf_data
  errAt,        \* position at which an exception left main(), "" if none
  prior,        \* ids removed by the DELETE of the session's running load
  heap,         \* storage of table dados: a sequence of slots
  nextId,       \* next value of the SERIAL sequence
  tableExists,  \* table dados is present (committed)
  mpc, margs, msg, mlog, mraised   \* send_email

svars == <<users, logged_in, user, role, pc, file, df, k, conn, fetched, data,
           f1, f2, view, excel, pdf, errAt, prior, heap, nextId, tableExists>>
mvars == <<mpc, margs, msg, mlog, mraised>>
vars  == <<svars, mvars>>

\* ---- values ----
Header   == <<"coluna1", "coluna2", "valor">>
CsvLines == {<<"a", "x", "1">>, <<"b", "y", "2">>}

SeqsUpTo(S, n) == UNION {[1..m -> S] : m \in 0..n}

\* an uploaded file is its sequence of lines; a well-formed one has the header
\* first; the empty file has no line at all
Files == {<<>>} \cup {<<Header>> \o body : body \in SeqsUpTo(CsvLines, MaxRows)}

NoFile == <<<<"no file">>>>

\* numeric coercion of a CSV cell and str() of a fetched number
Digits == <<"1", "2", "3", "4", "5", "6", "7", "8", "9">>
NumOf(t) == IF \E n \in 1..9 : Digits[n] = t THEN CHOOSE n \in 1..9 : Digits[n] = t ELSE 0
StrOf(n) == IF n \in 1..9 THEN Digits[n] ELSE "0"

Range(f) == {f[i] : i \in DOMAIN f}

\* ---- pandas ----
\* pd.read_csv: the first line names the columns, the others are the rows
read_csv(lines) ==
  [i \in 1..(Len(lines) - 1) |->
     [c1 |-> lines[i + 1][1], c2 |-> lines[i + 1][2], v |-> NumOf(lines[i + 1][3])]]

\* pd.DataFrame(list of RealDictRow): the columns come from the rows' keys,
\* so an empty list gives a frame without columns
EmptyFrame == [cols |-> <<>>, rows |-> <<>>]
DataFrame(recs) ==
  IF recs = <<>> THEN EmptyFrame
  ELSE [cols |-> <<"id", "coluna1", "coluna2", "valor">>, rows |-> recs]

HasCol(frame, c) == c \in Range(frame.cols)

Unique(s) == {s[i] : i \in DOMAIN s}

\* df[df[col] == value]
MaskC1(frame, val) == [frame EXCEPT !.rows = SelectSeq(frame.rows, LAMBDA r : r.c1 = val)]
MaskC2(frame, val) == [frame EXCEPT !.rows = SelectSeq(frame.rows, LAMBDA r : r.c2 = val)]

\* lines 180-184 of main
Filtrar(frame, a, b) ==
  LET d1 == IF a # "Todos" THEN MaskC1(frame, a) ELSE frame
  IN  IF b # "Todos" THEN MaskC2(d1, b) ELSE d1

\* ---- store ----
FreeSlot == [kd |-> "free", id |-> 0, c1 |-> "", c2 |-> "", v |-> 0, ins |-> 0, del |-> 0]
DeadSlot == [kd |-> "dead", id |-> 0, c1 |-> "", c2 |-> "", v |-> 0, ins |-> 0, del |-> 0]

\* a tuple is visible to a statement of session s when its insert is
\* committed or s's own, and s has not deleted it
VisibleTo(s, t) == t.kd = "tup" /\ t.ins \in {0, s} /\ t.del # s
Committed(t)    == t.kd = "tup" /\ t.ins = 0

\* SELECT * FROM dados, no ORDER BY: a scan of the storage in slot order
Select(s) ==
  LET vis == SelectSeq(heap, LAMBDA t : VisibleTo(s, t))
  IN  [i \in 1..Len(vis) |-> [id |-> vis[i].id, c1 |-> vis[i].c1, c2 |-> vis[i].c2, v |-> vis[i].v]]

\* conn.commit()
CommitHeap(s) ==
  [i \in 1..Len(heap) |->
     IF heap[i].kd = "tup" /\ heap[i].del = s THEN DeadSlot
     ELSE IF heap[i].kd = "tup" /\ heap[i].ins = s THEN [heap[i] EXCEPT !.ins = 0]
     ELSE heap[i]]

\* variant: the connection commits every statement as it runs, so the
\* inserts made before a failure stay
AbortKeepsInserts(s) ==
  [i \in 1..Len(heap) |->
     IF heap[i].kd = "tup" /\ heap[i].ins = s THEN [heap[i] EXCEPT !.ins = 0]
     ELSE IF heap[i].kd = "tup" /\ heap[i].del = s THEN [heap[i] EXCEPT !.del = 0]
     ELSE heap[i]]

\* the transaction of s never commits: its inserts are dead, its deletes undone
AbortHeap(s) ==
  [i \in 1..Len(heap) |->
     IF heap[i].kd = "tup" /\ heap[i].ins = s THEN DeadSlot
     ELSE IF heap[i].kd = "tup" /\ heap[i].del = s THEN [heap[i] EXCEPT !.del = 0]
     ELSE heap[i]]

\* DELETE FROM dados
DeleteHeap(s) ==
  [i \in 1..Len(heap) |-> IF VisibleTo(s, heap[i]) THEN [heap[i] EXCEPT !.del = s] ELSE heap[i]]

Proj(recs) == [i \in 1..Len(recs) |-> [c1 |-> recs[i].c1, c2 |-> recs[i].c2, v |-> recs[i].v]]
Ids(recs)  == {recs[i].id : i \in 1..Len(recs)}


\* ---- session ----
Names == {"admin", "analyst", "reader", "guest", "nobody"}
Pwds  == {"admin_pass", "analyst_pass", "reader_pass", "guest_pass", "wrong"}

\* USERS_JSON: the default of line 30, and a deployment with one more identity
DefaultUsers == [n \in {"admin", "analyst", "reader"} |->
                   CASE n = "admin" -> "admin_pass" [] n = "analyst" -> "analyst_pass" [] OTHER -> "reader_pass"]
GuestUsers   == [n \in {"admin", "analyst", "reader", "guest"} |->
                   CASE n = "admin" -> "admin_pass" [] n = "analyst" -> "analyst_pass"
                     [] n = "reader" -> "reader_pass" [] OTHER -> "guest_pass"]
UsersConfigs == {DefaultUsers, GuestUsers}

\* role_map.get(st.session_state.user, "reader")
check_role(u) == IF u \in {"admin", "analyst", "reader"} THEN u ELSE "reader"

Upd(f, s, val) == [f EXCEPT ![s] = val]

storeVars == <<heap, nextId, tableExists>>
authVars  == <<users, logged_in, user>>
loadVars  == <<file, df, k, prior>>
readVars  == <<fetched, data>>
viewVars  == <<f1, f2, view, excel, pdf>>

\* an exception leaves main(): nothing after the raising statement runs
Raise(s) == /\ pc' = Upd(pc, s, "raised")
            /\ errAt' = Upd(errAt, s, pc[s])

\* login(), already logged in: falls through
LoginPass(s) ==
  /\ pc[s] = "login" /\ logged_in[s]
  /\ pc' = Upd(pc, s, "role")
  /\ UNCHANGED <<authVars, role, loadVars, conn, readVars, viewVars, errAt, storeVars, mvars>>

\* login(), "Entrar" pressed with a matching pair: session marked, script rerun
LoginOk(s) ==
  /\ pc[s] = "login" /\ ~logged_in[s]
  /\ \E username \in Names, password \in Pwds :
       /\ username \in DOMAIN users /\ users[username] = password
       /\ logged_in' = Upd(logged_in, s, TRUE)
       /\ user' = Upd(user, s, username)
  /\ UNCHANGED <<users, pc, role, loadVars, conn, readVars, viewVars, errAt, storeVars, mvars>>

\* login(), no press or a wrong pair: st.stop()
LoginStop(s) ==
  /\ pc[s] = "login" /\ ~logged_in[s]
  /\ pc' = Upd(pc, s, "stopped")
  /\ UNCHANGED <<authVars, role, loadVars, conn, readVars, viewVars, errAt, storeVars, mvars>>

\* role = check_role()
CheckRole(s) ==
  /\ pc[s] = "role"
  /\ role' = Upd(role, s, check_role(user[s]))
  /\ pc' = Upd(pc, s, "upload")
  /\ UNCHANGED <<authVars, loadVars, conn, readVars, viewVars, errAt, storeVars, mvars>>

\* variant: the uploader is withheld from reader only
MayUploadNotReader(r) == r # "reader"

\* lines 164-167: the uploader is offered to admin only
MayUpload(r) == r = "admin"

UploadFile(s) ==
  /\ pc[s] = "upload" /\ MayUpload(role[s])
  /\ \E f \in Files : file' = Upd(file, s, f)
  /\ pc' = Upd(pc, s, "ld_read")
  /\ UNCHANGED <<authVars, role, df, k, prior, conn, readVars, viewVars, errAt, storeVars, mvars>>

\* no uploader, or no file in it
SkipUpload(s) ==
  /\ pc[s] = "upload"
  /\ pc' = Upd(pc, s, "gd_connect")
  /\ UNCHANGED <<authVars, role, loadVars, conn, readVars, viewVars, errAt, storeVars, mvars>>

\* ---- load_csv_to_postgres ----
LdRead(s) ==
  /\ pc[s] = "ld_read"
  /\ IF file[s] = <<>>
       THEN Raise(s) /\ UNCHANGED df
       ELSE /\ df' = Upd(df, s, read_csv(file[s]))
            /\ pc' = Upd(pc, s, "ld_connect")
            /\ UNCHANGED errAt
  /\ UNCHANGED <<authVars, role, file, k, prior, conn, readVars, viewVars, storeVars, mvars>>

\* get_connection()
Connect(s) ==
  /\ pc[s] \in {"ld_connect", "gd_connect"}
  /\ conn' = Upd(conn, s, "open")
  /\ pc' = Upd(pc, s, IF pc[s] = "ld_connect" THEN "ld_create" ELSE "gd_select")
  /\ UNCHANGED <<authVars, role, loadVars, readVars, viewVars, errAt, storeVars, mvars>>

\* psycopg2.connect raises: there is no connection
ConnectFail(s) ==
  /\ pc[s] \in {"ld_connect", "gd_connect"}
  /\ Raise(s)
  /\ UNCHANGED <<authVars, role, loadVars, conn, readVars, viewVars, storeVars, mvars>>

\* CREATE TABLE IF NOT EXISTS dados
LdCreate(s) ==
  /\ pc[s] = "ld_create"
  /\ pc' = Upd(pc, s, "ld_commit1")
  /\ UNCHANGED <<authVars, role, loadVars, conn, readVars, viewVars, errAt, storeVars, mvars>>

LdCommit1(s) ==
  /\ pc[s] = "ld_commit1"
  /\ tableExists' = TRUE
  /\ pc' = Upd(pc, s, "ld_delete")
  /\ UNCHANGED <<authVars, role, loadVars, conn, readVars, viewVars, errAt, heap, nextId, mvars>>

\* DELETE FROM dados; waits while another transaction holds a row it deletes
LdDelete(s) ==
  /\ pc[s] = "ld_delete"
  /\ \A i \in 1..Len(heap) : VisibleTo(s, heap[i]) => heap[i].del = 0
  /\ prior' = Upd(prior, s, Ids(Select(s)))
  /\ heap' = DeleteHeap(s)
  /\ pc' = Upd(pc, s, "ld_commit2")
  /\ UNCHANGED <<authVars, role, file, df, k, conn, readVars, viewVars, errAt, nextId, tableExists, mvars>>

\* variant: line 71 missing, the DELETE commits with the INSERTs at line 75
LdCommit2Missing(s) ==
  /\ pc[s] = "ld_commit2"
  /\ k' = Upd(k, s, 0)
  /\ pc' = Upd(pc, s, "ld_insert")
  /\ UNCHANGED <<authVars, role, file, df, prior, conn, readVars, viewVars, errAt, storeVars, mvars>>

\* conn.commit() of line 71
LdCommit2(s) ==
  /\ pc[s] = "ld_commit2"
  /\ heap' = CommitHeap(s)
  /\ k' = Upd(k, s, 0)
  /\ pc' = Upd(pc, s, "ld_insert")
  /\ UNCHANGED <<authVars, role, file, df, prior, conn, readVars, viewVars, errAt, nextId, tableExists, mvars>>

\* where the storage puts a new tuple: any slot the free space map offers (a
\* slot stands for a page, and the map hands pages out in no particular order),
\* or a new slot at the end when no slot is free
FreePlaces == {i \in 1..Len(heap) : heap[i].kd = "free"}
Places == IF FreePlaces # {} THEN FreePlaces
          ELSE IF Len(heap) < MaxHeap THEN {Len(heap) + 1} ELSE {}

PutAt(i, t) == IF i = Len(heap) + 1 THEN Append(heap, t) ELSE [heap EXCEPT ![i] = t]

\* one INSERT of the loop of lines 73-74, in the load's open transaction
LdInsert(s) ==
  /\ pc[s] = "ld_insert" /\ k[s] < Len(df[s])
  /\ nextId <= MaxId
  /\ LET r == df[s][k[s] + 1]
         t == [kd |-> "tup", id |-> nextId, c1 |-> r.c1, c2 |-> r.c2, v |-> r.v, ins |-> s, del |-> 0]
     IN  \E i \in Places : heap' = PutAt(i, t)
  /\ nextId' = nextId + 1
  /\ k' = Upd(k, s, k[s] + 1)
  /\ UNCHANGED <<authVars, role, pc, file, df, prior, conn, readVars, viewVars, errAt, tableExists, mvars>>

\* conn.commit() of line 75
LdCommit3(s) ==
  /\ pc[s] = "ld_insert" /\ k[s] = Len(df[s])
  /\ heap' = CommitHeap(s)
  /\ pc' = Upd(pc, s, "ld_close")
  /\ UNCHANGED <<authVars, role, loadVars, conn, readVars, viewVars, errAt, nextId, tableExists, mvars>>

\* cur.close(); conn.close()
LdClose(s) ==
  /\ pc[s] = "ld_close"
  /\ conn' = Upd(conn, s, "closed")
  /\ pc' = Upd(pc, s, "gd_connect")
  /\ UNCHANGED <<authVars, role, loadVars, readVars, viewVars, errAt, storeVars, mvars>>

\* ---- get_data ----
GdSelect(s) ==
  /\ pc[s] = "gd_select"
  /\ IF tableExists
       THEN /\ fetched' = Upd(fetched, s, Select(s))
            /\ pc' = Upd(pc, s, "gd_close")
            /\ UNCHANGED errAt
       ELSE Raise(s) /\ UNCHANGED fetched
  /\ UNCHANGED <<authVars, role, loadVars, conn, data, viewVars, storeVars, mvars>>

GdClose(s) ==
  /\ pc[s] = "gd_close"
  /\ conn' = Upd(conn, s, "closed")
  /\ data' = Upd(data, s, DataFrame(fetched[s]))
  /\ pc' = Upd(pc, s, "options")
  /\ UNCHANGED <<authVars, role, loadVars, fetched, viewVars, errAt, storeVars, mvars>>

\* a statement or commit raises: the exception leaves the function at once,
\* the close() calls are skipped and the open transaction never commits
StmtPcs == {"ld_create", "ld_commit1", "ld_delete", "ld_commit2", "ld_insert", "gd_select"}

DbError(s) ==
  /\ pc[s] \in StmtPcs
  /\ heap' = AbortHeap(s)
  /\ Raise(s)
  /\ UNCHANGED <<authVars, role, loadVars, conn, readVars, viewVars, nextId, tableExists, mvars>>


\* ---- filters and exports of main ----
\* lines 176 and 178: data["coluna1"] needs the column to be there
Options(s) ==
  /\ pc[s] = "options"
  /\ IF HasCol(data[s], "coluna1") /\ HasCol(data[s], "coluna2")
       THEN /\ \E a \in {"Todos"} \cup Unique([i \in 1..Len(data[s].rows) |-> data[s].rows[i].c1]) :
                 f1' = Upd(f1, s, a)
            /\ \E b \in {"Todos"} \cup Unique([i \in 1..Len(data[s].rows) |-> data[s].rows[i].c2]) :
                 f2' = Upd(f2, s, b)
            /\ pc' = Upd(pc, s, "filter")
            /\ UNCHANGED errAt
       ELSE Raise(s) /\ UNCHANGED <<f1, f2>>
  /\ UNCHANGED <<authVars, role, loadVars, conn, readVars, view, excel, pdf, storeVars, mvars>>

Filter(s) ==
  /\ pc[s] = "filter"
  /\ view' = Upd(view, s, Filtrar(data[s], f1[s], f2[s]))
  /\ pc' = Upd(pc, s, "excel")
  /\ UNCHANGED <<authVars, role, loadVars, conn, readVars, f1, f2, excel, pdf, errAt, storeVars, mvars>>

\* df.to_excel(writer, index=False, sheet_name='Dados')
to_excel(frame) ==
  [sheet |-> "Dados", header |-> frame.cols,
   rows |-> [i \in 1..Len(frame.rows) |->
               <<frame.rows[i].id, frame.rows[i].c1, frame.rows[i].c2, frame.rows[i].v>>]]

\* to_pdf: one bordered line of cells for the header, one per row
to_pdf(frame) ==
  <<frame.cols>> \o
  [i \in 1..Len(frame.rows) |->
     <<StrOf(frame.rows[i].id), frame.rows[i].c1, frame.rows[i].c2, StrOf(frame.rows[i].v)>>]

NoExcel == [sheet |-> "", header |-> <<>>, rows |-> <<>>]

\* lines 196-201
Excel(s) ==
  /\ pc[s] = "excel"
  /\ excel' = Upd(excel, s, to_excel(view[s]))
  /\ pc' = Upd(pc, s, "pdf")
  /\ UNCHANGED <<authVars, role, loadVars, conn, readVars, f1, f2, view, pdf, errAt, storeVars, mvars>>

\* lines 202-204; col_width = pdf.epw / len(df.columns) divides by zero on a
\* frame without columns
Pdf(s) ==
  /\ pc[s] = "pdf"
  /\ IF Len(view[s].cols) = 0
       THEN Raise(s) /\ UNCHANGED pdf
       ELSE /\ pdf' = Upd(pdf, s, to_pdf(view[s]))
            /\ pc' = Upd(pc, s, "done")
            /\ UNCHANGED errAt
  /\ UNCHANGED <<authVars, role, loadVars, conn, readVars, f1, f2, view, excel, storeVars, mvars>>

\* the connection object of a call that raised is finalised by the garbage
\* collector at some later time
Collect(s) ==
  /\ pc[s] = "raised" /\ conn[s] = "open"
  /\ conn' = Upd(conn, s, "closed")
  /\ UNCHANGED <<authVars, role, pc, loadVars, readVars, viewVars, errAt, storeVars, mvars>>

\* Streamlit runs the script again: the locals of main() start afresh,
\* st.session_state stays
Rerun(s) ==
  /\ pc[s] \in {"stopped", "done", "raised"}
  /\ pc' = Upd(pc, s, "login")
  /\ role' = Upd(role, s, "")
  /\ file' = Upd(file, s, NoFile)
  /\ df' = Upd(df, s, <<>>)
  /\ k' = Upd(k, s, 0)
  /\ prior' = Upd(prior, s, {})
  /\ conn' = Upd(conn, s, "none")
  /\ fetched' = Upd(fetched, s, <<>>)
  /\ data' = Upd(data, s, EmptyFrame)
  /\ f1' = Upd(f1, s, "Todos")
  /\ f2' = Upd(f2, s, "Todos")
  /\ view' = Upd(view, s, EmptyFrame)
  /\ excel' = Upd(excel, s, NoExcel)
  /\ pdf' = Upd(pdf, s, <<>>)
  /\ errAt' = Upd(errAt, s, "")
  /\ UNCHANGED <<authVars, storeVars, mvars>>

\* autovacuum: the slots of dead tuples become reusable
Vacuum ==
  /\ \E i \in 1..Len(heap) : heap[i].kd = "dead"
  /\ heap' = [i \in 1..Len(heap) |-> IF heap[i].kd = "dead" THEN FreeSlot ELSE heap[i]]
  /\ UNCHANGED <<authVars, role, pc, loadVars, conn, readVars, viewVars, errAt, nextId, tableExists, mvars>>

\* ---- one session, from a fresh database ----
MailIdle ==
  /\ mpc = "idle" /\ margs = <<>> /\ msg = <<>> /\ mlog = <<>> /\ mraised = 0

Locals0 ==
  /\ role = [s \in Sessions |-> ""]
  /\ file = [s \in Sessions |-> NoFile]
  /\ df = [s \in Sessions |-> <<>>]
  /\ k = [s \in Sessions |-> 0]
  /\ prior = [s \in Sessions |-> {}]
  /\ conn = [s \in Sessions |-> "none"]
  /\ fetched = [s \in Sessions |-> <<>>]
  /\ data = [s \in Sessions |-> EmptyFrame]
  /\ f1 = [s \in Sessions |-> "Todos"]
  /\ f2 = [s \in Sessions |-> "Todos"]
  /\ view = [s \in Sessions |-> EmptyFrame]
  /\ excel = [s \in Sessions |-> NoExcel]
  /\ pdf = [s \in Sessions |-> <<>>]
  /\ errAt = [s \in Sessions |-> ""]

\* the database before the session starts: fresh, or holding what an earlier
\* load of an admin left in table dados
LoadedHeap(rows) ==
  [i \in 1..Len(rows) |->
     [kd |-> "tup", id |-> i, c1 |-> rows[i].c1, c2 |-> rows[i].c2, v |-> rows[i].v,
      ins |-> 0, del |-> 0]]

EarlierLoads == {<<>>, <<[c1 |-> "b", c2 |-> "y", v |-> 2]>>}

InitStore ==
  \/ heap = <<>> /\ nextId = 1 /\ tableExists = FALSE
  \/ \E rows \in EarlierLoads :
       heap = LoadedHeap(rows) /\ nextId = Len(rows) + 1 /\ tableExists = TRUE

Init ==
  /\ users \in UsersConfigs
  /\ logged_in = [s \in Sessions |-> FALSE]
  /\ user = [s \in Sessions |-> ""]
  /\ pc = [s \in Sessions |-> IF s = 1 THEN "login" ELSE "off"]
  /\ Locals0
  /\ InitStore
  /\ MailIdle

Next ==
  \/ \E s \in Sessions : LoginPass(s)
  \/ \E s \in Sessions : LoginOk(s)
  \/ \E s \in Sessions : LoginStop(s)
  \/ \E s \in Sessions : CheckRole(s)
  \/ \E s \in Sessions : UploadFile(s)
  \/ \E s \in Sessions : SkipUpload(s)
  \/ \E s \in Sessions : LdRead(s)
  \/ \E s \in Sessions : Connect(s)
  \/ \E s \in Sessions : ConnectFail(s)
  \/ \E s \in Sessions : LdCreate(s)
  \/ \E s \in Sessions : LdCommit1(s)
  \/ \E s \in Sessions : LdDelete(s)
  \/ \E s \in Sessions : LdCommit2(s)
  \/ \E s \in Sessions : LdInsert(s)
  \/ \E s \in Sessions : LdCommit3(s)
  \/ \E s \in Sessions : LdClose(s)
  \/ \E s \in Sessions : GdSelect(s)
  \/ \E s \in Sessions : GdClose(s)
  \/ \E s \in Sessions : DbError(s)
  \/ \E s \in Sessions : Options(s)
  \/ \E s \in Sessions : Filter(s)
  \/ \E s \in Sessions : Excel(s)
  \/ \E s \in Sessions : Pdf(s)
  \/ \E s \in Sessions : Collect(s)
  \/ \E s \in Sessions : Rerun(s)
  \/ Vacuum

Spec == Init /\ [][Next]_vars


\* ---- properties of one session (Spec) ----
\* the table as a new connection would read it
CommittedRows ==
  LET vis == SelectSeq(heap, Committed)
  IN  [i \in 1..Len(vis) |-> [id |-> vis[i].id, c1 |-> vis[i].c1, c2 |-> vis[i].c2, v |-> vis[i].v]]

AfterFetch == {"options", "filter", "excel", "pdf", "done"}
LoadPcs == {"ld_read", "ld_connect", "ld_create", "ld_commit1", "ld_delete", "ld_commit2",
            "ld_insert", "ld_close"}
CallPcs == {"ld_create", "ld_commit1", "ld_delete", "ld_commit2", "ld_insert", "ld_close",
            "gd_select", "gd_close"}

\* get_data has returned in this run of the script
GotData(s) == pc[s] \in AfterFetch \/ (pc[s] = "raised" /\ errAt[s] \in AfterFetch)

\* this run of the script has loaded its file with success
Loaded(s) == file[s] # NoFile /\ (pc[s] \in {"gd_connect", "gd_select", "gd_close"} \/ GotData(s))

\* C1: after a successful ingest, the fetchAll that follows returns exactly
\* the parsed rows of the input, in input order, and no row that was in the
\* table before the ingest.
C1_RoundTrip ==
  \A s \in Sessions :
    (Loaded(s) /\ GotData(s)) =>
      /\ Proj(data[s].rows) = df[s]
      /\ Ids(data[s].rows) \cap prior[s] = {}

\* r is a sub-sequence of t that keeps exactly the rows satisfying P
IsFilterOf(r, t, P(_)) ==
  \E m \in [1..Len(r) -> 1..Len(t)] :
    /\ \A i \in 1..Len(r) : r[i] = t[m[i]] /\ P(t[m[i]])
    /\ \A i, j \in 1..Len(r) : i < j => m[i] < m[j]
    /\ \A n \in 1..Len(t) : P(t[n]) => \E i \in 1..Len(r) : m[i] = n

Matches(row, a, b) == (a # "Todos" => row.c1 = a) /\ (b # "Todos" => row.c2 = b)

\* C2: for every table and every FilterSpec the filter stage raises nothing
\* and the view is exactly the rows, in the original order, that equal every
\* constraint that is not "Todos".
C2_Filter ==
  \A s \in Sessions :
    GotData(s) =>
      /\ errAt[s] \notin {"options", "filter"}
      /\ pc[s] \in {"excel", "pdf", "done"} =>
           IsFilterOf(view[s].rows, data[s].rows, LAMBDA row : Matches(row, f1[s], f2[s]))

\* whenever the filter stage is reached (the fetched table is not empty), the
\* view is the order-preserving selection by f1 and f2, and data is untouched
FilterViewWhenReached ==
  \A s \in Sessions :
    pc[s] \in {"excel", "pdf", "done"} =>
      /\ IsFilterOf(view[s].rows, data[s].rows, LAMBDA row : Matches(row, f1[s], f2[s]))
      /\ view[s].cols = data[s].cols
      /\ data[s] = DataFrame(fetched[s])

\* C3: ingestion is entered only by a session that passed login with a known
\* identity whose role is admin.
C3_IngestAdminOnly ==
  \A s \in Sessions :
    pc[s] \in LoadPcs =>
      /\ logged_in[s]
      /\ user[s] \in DOMAIN users
      /\ user[s] = "admin"
      /\ role[s] = "admin"

C3_Witness ==
  \E s \in Sessions : pc[s] = "ld_insert" /\ k[s] > 0 /\ users = GuestUsers

\* C4: a reader session reaches neither export renderer.
C4_ReaderNoExport ==
  \A s \in Sessions :
    (pc[s] \in {"excel", "pdf"} \/ excel[s] # NoExcel) => role[s] \in {"analyst", "admin"}

\* C5: no connection is open once the call that opened it has returned or
\* raised.
C5_ConnClosed ==
  \A s \in Sessions : pc[s] \notin CallPcs => conn[s] # "open"

\* C7: fetchAll of a table with zero records gives a frame that carries the
\* named columns, and the rest of main runs to a header-only PDF with no raise.
C7_EmptyTable ==
  \A s \in Sessions :
    (GotData(s) /\ fetched[s] = <<>>) =>
      /\ \A c \in {"coluna1", "coluna2", "valor"} : HasCol(data[s], c)
      /\ pc[s] # "raised"
      /\ pc[s] = "done" => Len(pdf[s]) = 1

\* an insert of the load raised after at least one row was inserted
FailedMidInsert(s) ==
  pc[s] = "raised" /\ errAt[s] = "ld_insert" /\ k[s] >= 1 /\ k[s] < Len(df[s])

\* C9 as stated: after a load fails at row k > 1, readers see the rows
\* inserted before the failure.
C9_PartialPrefix ==
  \A s \in Sessions :
    FailedMidInsert(s) => Proj(CommittedRows) = SubSeq(df[s], 1, k[s])

\* C9 amended: after a load fails at row k > 1, readers see an empty table:
\* the old rows are gone and no row of the failed load is visible.
C9_EmptyAfterFailure ==
  \A s \in Sessions : FailedMidInsert(s) => CommittedRows = <<>>

C9_Witness ==
  \E s \in Sessions : FailedMidInsert(s) /\ prior[s] # {}


\* ---- two sessions on the same table (SpecConc) ----
\* both sessions are logged in and past check_role; the table holds an
\* earlier load; each runs its store calls once, interleaved statement by
\* statement
InitConc ==
  /\ users = DefaultUsers
  /\ logged_in = [s \in Sessions |-> TRUE]
  /\ user \in [Sessions -> {"admin", "reader"}]
  /\ role = [s \in Sessions |-> check_role(user[s])]
  /\ pc = [s \in Sessions |-> "upload"]
  /\ file = [s \in Sessions |-> NoFile]
  /\ df = [s \in Sessions |-> <<>>]
  /\ k = [s \in Sessions |-> 0]
  /\ prior = [s \in Sessions |-> {}]
  /\ conn = [s \in Sessions |-> "none"]
  /\ fetched = [s \in Sessions |-> <<>>]
  /\ data = [s \in Sessions |-> EmptyFrame]
  /\ f1 = [s \in Sessions |-> "Todos"]
  /\ f2 = [s \in Sessions |-> "Todos"]
  /\ view = [s \in Sessions |-> EmptyFrame]
  /\ excel = [s \in Sessions |-> NoExcel]
  /\ pdf = [s \in Sessions |-> <<>>]
  /\ errAt = [s \in Sessions |-> ""]
  /\ \E rows \in EarlierLoads \ {<<>>} :
       heap = LoadedHeap(rows) /\ nextId = Len(rows) + 1 /\ tableExists = TRUE
  /\ MailIdle

NextConc ==
  \/ \E s \in Sessions : UploadFile(s)
  \/ \E s \in Sessions : SkipUpload(s)
  \/ \E s \in Sessions : LdRead(s)
  \/ \E s \in Sessions : Connect(s)
  \/ \E s \in Sessions : ConnectFail(s)
  \/ \E s \in Sessions : LdCreate(s)
  \/ \E s \in Sessions : LdCommit1(s)
  \/ \E s \in Sessions : LdDelete(s)
  \/ \E s \in Sessions : LdCommit2(s)
  \/ \E s \in Sessions : LdInsert(s)
  \/ \E s \in Sessions : LdCommit3(s)
  \/ \E s \in Sessions : LdClose(s)
  \/ \E s \in Sessions : GdSelect(s)
  \/ \E s \in Sessions : GdClose(s)
  \/ \E s \in Sessions : DbError(s)
  \/ \E s \in Sessions : Collect(s)
  \/ Vacuum

SpecConc == InitConc /\ [][NextConc]_vars

Count(sq, x) == Cardinality({i \in 1..Len(sq) : sq[i] = x})
SameRows(a, b) == \A x \in Range(a) \cup Range(b) : Count(a, x) = Count(b, x)

\* C6: when two loads that ran on separate connections have both completed,
\* the committed table holds exactly the rows of one of them, never a mixture.
C6_LastLoadWins ==
  (\A s \in Sessions : Loaded(s)) =>
     \E s \in Sessions : SameRows(Proj(CommittedRows), df[s])

\* the load of w has committed its DELETE and not yet its INSERTs
MidLoad(w) == pc[w] = "ld_insert"
NewIds(w) == {heap[i].id : i \in {j \in 1..Len(heap) : heap[j].kd = "tup" /\ heap[j].ins = w}}

\* C10: a read that runs while a load of a non-empty file over a non-empty
\* table is between its committed DELETE and its final commit sees neither
\* the rows the load removed nor the rows it is inserting, so it returns
\* neither the complete old contents nor the complete new load (a session that
\* loaded nothing itself reads an empty table).
C10_MidTruncateRead ==
  [][\A r, w \in Sessions :
       (r # w /\ pc[r] = "gd_select" /\ pc'[r] = "gd_close" /\ MidLoad(w)
          /\ prior[w] # {} /\ df[w] # <<>>)
       => /\ Ids(fetched'[r]) \cap prior[w] = {}
          /\ Ids(fetched'[r]) \cap NewIds(w) = {}
          /\ file[r] = NoFile => fetched'[r] = <<>>]_vars

C10_Witness ==
  \E r, w \in Sessions :
    /\ r # w /\ file[r] = NoFile /\ pc[r] = "gd_close" /\ fetched[r] = <<>>
    /\ MidLoad(w) /\ k[w] >= 1 /\ prior[w] # {} /\ df[w] # <<>>


\* ---- send_email (SpecMail) ----
Recipients  == {"ana@example.org", "rui@example.org"}
Attachments == {"xlsx-bytes", "pdf-bytes"}
Filenames   == {"dados.xlsx", "dados.pdf"}
SmtpUser    == "smtp_user"

\* a caller invokes send_email(to_email, subject, body, attachment_bytes, filename)
MCall ==
  /\ mpc = "idle"
  /\ \E t \in Recipients, a \in Attachments, f \in Filenames :
       margs' = [to_email |-> t, subject |-> "Dados", body |-> "Segue o anexo",
                 attachment_bytes |-> a, filename |-> f]
  /\ mpc' = "build"
  /\ mlog' = <<>>
  /\ mraised' = 0
  /\ msg' = <<>>
  /\ UNCHANGED svars

\* lines 124-132: headers, the text part, the attachment part
MBuild ==
  /\ mpc = "build"
  /\ msg' = <<[From |-> SmtpUser, To |-> margs.to_email, Subject |-> margs.subject,
               parts |-> <<[kind |-> "text/plain", payload |-> margs.body,
                            name |-> "", disposition |-> <<>>],
                           [kind |-> "application/octet-stream", payload |-> margs.attachment_bytes,
                            name |-> margs.filename,
                            disposition |-> <<"attachment", margs.filename>>]>>]>>
  /\ mpc' = "connect"
  /\ UNCHANGED <<margs, mlog, mraised, svars>>

Step(name, ok) == [step |-> name, ok |-> ok]

\* smtplib.SMTP(smtp_server, smtp_port): the constructor connects
MConnect ==
  /\ mpc = "connect"
  /\ mlog' = Append(mlog, Step("connect", TRUE))
  /\ mpc' = "starttls"
  /\ UNCHANGED <<margs, msg, mraised, svars>>

\* the relay is unreachable: the with block is never entered
MConnectFail ==
  /\ mpc = "connect"
  /\ mlog' = Append(mlog, Step("connect", FALSE))
  /\ mraised' = mraised + 1
  /\ mpc' = "raised"
  /\ UNCHANGED <<margs, msg, svars>>

\* server.starttls()
MStartTls ==
  /\ mpc = "starttls"
  /\ mlog' = Append(mlog, Step("starttls", TRUE))
  /\ mpc' = "login"
  /\ UNCHANGED <<margs, msg, mraised, svars>>

MStartTlsFail ==
  /\ mpc = "starttls"
  /\ mlog' = Append(mlog, Step("starttls", FALSE))
  /\ mpc' = "exit_err"
  /\ UNCHANGED <<margs, msg, mraised, svars>>

\* server.login(smtp_user, smtp_pass)
MLogin ==
  /\ mpc = "login"
  /\ mlog' = Append(mlog, Step("login", TRUE))
  /\ mpc' = "send"
  /\ UNCHANGED <<margs, msg, mraised, svars>>

\* variant: a rejected login is swallowed and the message is sent anyway
MLoginFailIgnored ==
  /\ mpc = "login"
  /\ mlog' = Append(mlog, Step("login", FALSE))
  /\ mpc' = "send"
  /\ UNCHANGED <<margs, msg, mraised, svars>>

MLoginFail ==
  /\ mpc = "login"
  /\ mlog' = Append(mlog, Step("login", FALSE))
  /\ mpc' = "exit_err"
  /\ UNCHANGED <<margs, msg, mraised, svars>>

\* server.send_message(msg)
MSend ==
  /\ mpc = "send"
  /\ mlog' = Append(mlog, Step("send", TRUE))
  /\ mpc' = "exit_ok"
  /\ UNCHANGED <<margs, msg, mraised, svars>>

MSendFail ==
  /\ mpc = "send"
  /\ mlog' = Append(mlog, Step("send", FALSE))
  /\ mpc' = "exit_err"
  /\ UNCHANGED <<margs, msg, mraised, svars>>

\* SMTP.__exit__ after a body that ran through: QUIT, then close; a reply
\* other than 221 raises
MExitOk ==
  /\ mpc = "exit_ok"
  /\ \E quitOk \in BOOLEAN :
       /\ mlog' = Append(mlog, Step("quit", quitOk))
       /\ mraised' = IF quitOk THEN mraised ELSE mraised + 1
       /\ mpc' = IF quitOk THEN "returned" ELSE "raised"
  /\ UNCHANGED <<margs, msg, svars>>

\* SMTP.__exit__ after a body that raised: QUIT, then close; one exception
\* goes on to the caller of send_email
MExitErr ==
  /\ mpc = "exit_err"
  /\ \E quitOk \in BOOLEAN : mlog' = Append(mlog, Step("quit", quitOk))
  /\ mraised' = mraised + 1
  /\ mpc' = "raised"
  /\ UNCHANGED <<margs, msg, svars>>

\* the call is over; the caller may call again
MDone ==
  /\ mpc \in {"returned", "raised"}
  /\ mpc' = "idle"
  /\ UNCHANGED <<margs, msg, mlog, mraised, svars>>

InitMail ==
  /\ users = DefaultUsers
  /\ logged_in = [s \in Sessions |-> FALSE]
  /\ user = [s \in Sessions |-> ""]
  /\ pc = [s \in Sessions |-> "off"]
  /\ Locals0
  /\ heap = <<>> /\ nextId = 1 /\ tableExists = FALSE
  /\ MailIdle

NextMail ==
  \/ MCall
  \/ MBuild
  \/ MConnect
  \/ MConnectFail
  \/ MStartTls
  \/ MStartTlsFail
  \/ MLogin
  \/ MLoginFail
  \/ MSend
  \/ MSendFail
  \/ MExitOk
  \/ MExitErr
  \/ MDone

SpecMail == InitMail /\ [][NextMail]_vars

SmtpOrder == <<"connect", "starttls", "login", "send">>
ProtoLog  == SelectSeq(mlog, LAMBDA e : e.step # "quit")

\* C8: send_email performs STARTTLS, then login, then one message submission,
\* in that order; a failed step is the last one performed, nothing is
\* retried, and the failure reaches the caller exactly once.
C8_SmtpOrder ==
  /\ Len(ProtoLog) <= Len(SmtpOrder)
  /\ \A i \in 1..Len(ProtoLog) : ProtoLog[i].step = SmtpOrder[i]
  /\ \A i \in 1..(Len(ProtoLog) - 1) : ProtoLog[i].ok
  /\ mraised <= 1
  /\ mpc = "raised" => mraised = 1
  /\ mpc = "returned" => mraised = 0 /\ Len(ProtoLog) = 4
  /\ (mpc \in {"returned", "raised", "idle"} /\ \E i \in 1..Len(ProtoLog) : ~ProtoLog[i].ok)
       => mraised = 1

C8_Witness ==
  /\ mpc = "raised"
  /\ Len(ProtoLog) = 3 /\ ~ProtoLog[3].ok /\ ProtoLog[3].step = "login"

====
